---------------------------- MODULE Spec2Model ----------------------------
(***************************************************************************)
(* A model of the arxiv_daily pipeline:                                    *)
(*   arxiv_daily.py     get_cv_papers (fetch, window filter, digest file)  *)
(*   analyze_papers.py  load_papers, parse_ai_response, analyze_papers,    *)
(*                      generate_report, get_output_filename, main         *)
(* Text is modelled as Python models it: a str is a sequence of            *)
(* one-character strings, and strip / startswith / find / slicing / split  *)
(* are computed on those sequences.                                        *)
(***************************************************************************)
EXTENDS Integers, Sequences, FiniteSets, TLC

VARIABLES
    pc,               \* position of the running program
    err,              \* the exception that ended the program, or "none"
    results,          \* what arxiv.Search.results() yields (newest first)
    past_days,        \* get_cv_papers' past_days argument
    max_results,      \* get_cv_papers' max_results argument
    digest,           \* get_cv_papers: what it computed and the text it wrote
    lines,            \* load_papers: the lines read from the file
    pos,              \* load_papers: index of the next line of the loop
    current_paper,    \* load_papers: the record under construction (a dict)
    papers,           \* load_papers: the records flushed so far / returned
    links_seen,       \* history: current record has met its links marker
    config,           \* main: what load_config returned
    research_topics,  \* main: the topic list
    total_papers,     \* analyze_papers: len(papers) at entry
    i,                \* analyze_papers: enumerate index of the next paper
    calls,            \* history: per visited paper, "raised" or its verdict
    relevant_papers,  \* analyze_papers: the list being built
    analysis,         \* analyze_papers' return value
    args,             \* main: the parsed arguments [input, output, topics]
    report,           \* generate_report: what has been written to the file
    response_text,    \* parse_ai_response: its argument
    verdict           \* parse_ai_response: its return value

fetchVars == <<results, past_days, max_results, digest>>
loadVars == <<lines, pos, current_paper, papers, links_seen>>
mainVars == <<args, config, research_topics, report>>
analyzeVars == <<total_papers, i, calls, relevant_papers, analysis>>
responseVars == <<response_text, verdict>>

vars == <<pc, err, fetchVars, loadVars, mainVars, analyzeVars, responseVars>>

-----------------------------------------------------------------------------
(* Bounds of the model. *)

\* most results one search yields
MaxResults == 4
\* most results of a search whose digest is read back by load_papers
MaxReadBack == 2
\* largest submission date, as a day offset
MaxDate == 3
\* largest lookback window
MaxDays == 2
\* most papers of a digest given to the analysis
MaxPapers == 2
\* most lines of a hand-made digest given to load_papers
MaxLines == 4
\* most lines of a completion response given to parse_ai_response
MaxRespLines == 2

-----------------------------------------------------------------------------
(* Python str operations on sequences of characters. *)

\* str.strip() with no argument strips whitespace
Whitespace == {" ", "\n", "\t"}

StartsWith(s, p) ==
    /\ Len(s) >= Len(p)
    /\ SubSeq(s, 1, Len(p)) = p

\* s[n:]
DropPrefix(s, n) == SubSeq(s, n + 1, Len(s))

RECURSIVE LStrip(_)
LStrip(s) ==
    IF s # <<>> /\ Head(s) \in Whitespace THEN LStrip(Tail(s)) ELSE s

RECURSIVE RStrip(_)
RStrip(s) ==
    IF s # <<>> /\ s[Len(s)] \in Whitespace
    THEN RStrip(SubSeq(s, 1, Len(s) - 1))
    ELSE s

Strip(s) == RStrip(LStrip(s))

\* s.find(c): the 0-based index of the first c, or -1
Find(s, c) ==
    LET at == {k \in DOMAIN s : s[k] = c} IN
    IF at = {} THEN -1 ELSE (CHOOSE k \in at : \A j \in at : k <= j) - 1

\* a slice bound as Python clamps it: negative counts from the end
ClampIndex(n, len) ==
    IF n < 0 THEN (IF n + len < 0 THEN 0 ELSE n + len)
    ELSE IF n > len THEN len ELSE n

\* s[a:b]
Slice(s, a, b) == SubSeq(s, ClampIndex(a, Len(s)) + 1, ClampIndex(b, Len(s)))

\* s.split(c) for a one-character separator c
RECURSIVE SplitOn(_, _)
SplitOn(s, c) ==
    LET k == Find(s, c) IN
    IF k = -1 THEN <<s>>
    ELSE <<SubSeq(s, 1, k)>> \o SplitOn(DropPrefix(s, k + 1), c)

\* f.readlines(): the lines of the text, each with its line end
RECURSIVE ReadLines(_)
ReadLines(s) ==
    LET k == Find(s, "\n") IN
    IF s = <<>> THEN <<>>
    ELSE IF k = -1 THEN <<s>>
    ELSE <<SubSeq(s, 1, k + 1)>> \o ReadLines(DropPrefix(s, k + 1))

\* sep.join(parts)
RECURSIVE Join(_, _)
Join(sep, parts) ==
    IF parts = <<>> THEN <<>>
    ELSE IF Len(parts) = 1 THEN parts[1]
    ELSE parts[1] \o sep \o Join(sep, Tail(parts))

\* str(n) for a natural number n
Digit == <<"0", "1", "2", "3", "4", "5", "6", "7", "8", "9">>

RECURSIVE IntStr(_)
IntStr(n) ==
    IF n < 10 THEN <<Digit[n + 1]>>
    ELSE IntStr(n \div 10) \o <<Digit[(n % 10) + 1]>>

-----------------------------------------------------------------------------
(* Python dicts: functions over the set of keys present. *)

EmptyDict == [k \in {} |-> <<>>]

Has(d, k) == k \in DOMAIN d

Put(d, k, v) == [x \in (DOMAIN d) \cup {k} |-> IF x = k THEN v ELSE d[x]]

-----------------------------------------------------------------------------
(* The fixed markers shared by the digest writer and load_papers. *)

\* "## <page emoji> Paper #"  (the emoji is one character)
PaperMark == <<"#", "#", " ", "EMOJI_PAGE", " ", "P", "a", "p", "e", "r", " ", "#">>
\* "### "
TitleMark == <<"#", "#", "#", " ">>
\* "**Date (UTC):**"
DateMark == <<"*", "*", "D", "a", "t", "e", " ", "(", "U", "T", "C", ")", ":", "*", "*">>
\* "**Authors:**"
AuthorsMark == <<"*", "*", "A", "u", "t", "h", "o", "r", "s", ":", "*", "*">>
\* "**Abstract:**"
AbstractMark == <<"*", "*", "A", "b", "s", "t", "r", "a", "c", "t", ":", "*", "*">>
\* "**Links:**"
LinksMark == <<"*", "*", "L", "i", "n", "k", "s", ":", "*", "*">>
\* "- [arXiv Page]"
ArxivMark == <<"-", " ", "[", "a", "r", "X", "i", "v", " ", "P", "a", "g", "e", "]">>
\* "- [PDF]"
PdfMark == <<"-", " ", "[", "P", "D", "F", "]">>
\* "---"
RuleMark == <<"-", "-", "-">>

NL == <<"\n">>


-----------------------------------------------------------------------------
(* get_cv_papers: fetch, keep the window, write the digest. *)

\* '# Computer Vision Papers from arXiv\n\n'
HeaderTitle ==
    <<"#", " ", "C", "o", "m", "p", "u", "t", "e", "r", " ", "V", "i", "s",
      "i", "o", "n", " ", "P", "a", "p", "e", "r", "s", " ", "f", "r", "o",
      "m", " ", "a", "r", "X", "i", "v", "\n", "\n">>
\* '*Last '
HeaderLast == <<"*", "L", "a", "s", "t", " ">>
\* ' Days ('
HeaderDays == <<" ", "D", "a", "y", "s", " ", "(">>
\* ' to '
HeaderTo == <<" ", "t", "o", " ">>
\* ')*\n\n'
HeaderClose == <<")", "*", "\n", "\n">>
\* '*Maximum results: '
HeaderMax ==
    <<"*", "M", "a", "x", "i", "m", "u", "m", " ", "r", "e", "s", "u", "l",
      "t", "s", ":", " ">>
\* '*\n\n'
HeaderMaxClose == <<"*", "\n", "\n">>
\* '*Note: All dates are in UTC (Coordinated Universal Time)*\n\n'
HeaderNote ==
    <<"*", "N", "o", "t", "e", ":", " ", "A", "l", "l", " ", "d", "a", "t",
      "e", "s", " ", "a", "r", "e", " ", "i", "n", " ", "U", "T", "C", " ",
      "(", "C", "o", "o", "r", "d", "i", "n", "a", "t", "e", "d", " ", "U",
      "n", "i", "v", "e", "r", "s", "a", "l", " ", "T", "i", "m", "e", ")",
      "*", "\n", "\n">>
\* '## <chart emoji> Daily Paper Count Summary\n\n'
TableTitle ==
    <<"#", "#", " ", "EMOJI_CHART", " ", "D", "a", "i", "l", "y", " ", "P",
      "a", "p", "e", "r", " ", "C", "o", "u", "n", "t", " ", "S", "u", "m",
      "m", "a", "r", "y", "\n", "\n">>
\* '| Date (UTC) | Number of Papers |\n'
TableHead ==
    <<"|", " ", "D", "a", "t", "e", " ", "(", "U", "T", "C", ")", " ", "|",
      " ", "N", "u", "m", "b", "e", "r", " ", "o", "f", " ", "P", "a", "p",
      "e", "r", "s", " ", "|", "\n">>
\* '|------------|-----------------|\n'
TableRule ==
    <<"|", "-", "-", "-", "-", "-", "-", "-", "-", "-", "-", "-", "-", "|",
      "-", "-", "-", "-", "-", "-", "-", "-", "-", "-", "-", "-", "-", "-",
      "-", "-", "-", "|", "\n">>

\* str(date): dates are day offsets from 2024-01-10, within January 2024
DateStr(d) ==
    <<"2", "0", "2", "4", "-", "0", "1", "-">>
        \o <<Digit[((10 + d) \div 10) + 1], Digit[((10 + d) % 10) + 1]>>

\* 'papers/'
PapersDir == <<"p", "a", "p", "e", "r", "s", "/">>
\* 'cv_papers_'
CvPapers == <<"c", "v", "_", "p", "a", "p", "e", "r", "s", "_">>
\* '_to_'
ToSep == <<"_", "t", "o", "_">>
\* '.md'
MdExt == <<".", "m", "d">>

\* arxiv_daily.get_output_filename(start_date, end_date)
GetDigestFilename(start_date, end_date) ==
    PapersDir \o CvPapers \o DateStr(start_date) \o ToSep \o DateStr(end_date)
        \o MdExt

\* start_date = latest_date - timedelta(days=past_days)
StartDate(latest_date, days) == latest_date - days

\* InWindow with a strict lower limit: the first day of the window is left out
InWindowOpen(d, start_date, latest_date) == start_date < d /\ d <= latest_date

\* start_date <= submission_date <= latest_date
InWindow(d, start_date, latest_date) == start_date <= d /\ d <= latest_date

\* the dict appended to papers for one result
PaperOf(result) ==
    [date    |-> result.published,
     title   |-> result.title,
     authors |-> result.authors,
     summary |-> result.summary,
     url     |-> result.entry_id,
     pdf_url |-> result.pdf_url]

\* the second loop over search.results(): the papers kept, in result order
RECURSIVE KeptPapers(_, _, _)
KeptPapers(rs, start_date, latest_date) ==
    IF rs = <<>> THEN <<>>
    ELSE (IF InWindow(Head(rs).published, start_date, latest_date)
          THEN <<PaperOf(Head(rs))>> ELSE <<>>)
         \o KeptPapers(Tail(rs), start_date, latest_date)

\* daily_counts after the loop: a dict from date to number of kept papers
DailyCounts(kept) ==
    [d \in {kept[k].date : k \in DOMAIN kept} |->
        Cardinality({k \in DOMAIN kept : kept[k].date = d})]

\* sorted(keys, reverse=True)
RECURSIVE SortedDesc(_)
SortedDesc(S) ==
    IF S = {} THEN <<>>
    ELSE LET m == CHOOSE x \in S : \A y \in S : y <= x
         IN <<m>> \o SortedDesc(S \ {m})

\* papers.sort(key=date, reverse=True): stable, equal dates keep their order
RECURSIVE SortPapers(_)
SortPapers(ps) ==
    IF ps = <<>> THEN <<>>
    ELSE LET front == SortPapers(SubSeq(ps, 1, Len(ps) - 1))
             p     == ps[Len(ps)]
             n     == Cardinality({k \in DOMAIN front : front[k].date >= p.date})
         IN SubSeq(front, 1, n) \o <<p>> \o SubSeq(front, n + 1, Len(front))

\* the rows of the per-date table, as written
RECURSIVE RenderRows(_, _)
RenderRows(dates, counts) ==
    IF dates = <<>> THEN <<>>
    ELSE <<"|", " ">> \o DateStr(Head(dates)) \o <<" ", "|", " ">>
         \o IntStr(counts[Head(dates)]) \o <<" ", "|", "\n">>
         \o RenderRows(Tail(dates), counts)

\* the section written for the n-th paper
RenderPaper(n, paper) ==
    PaperMark \o IntStr(n) \o NL \o NL
    \o TitleMark \o paper.title \o NL \o NL
    \o DateMark \o <<" ">> \o DateStr(paper.date) \o NL \o NL
    \o AuthorsMark \o <<" ">> \o Join(<<",", " ">>, paper.authors) \o NL \o NL
    \o AbstractMark \o NL \o NL
    \o paper.summary \o NL \o NL
    \o LinksMark \o NL \o NL
    \o ArxivMark \o <<"(">> \o paper.url \o <<")">> \o NL
    \o PdfMark \o <<"(">> \o paper.pdf_url \o <<")">> \o NL \o NL
    \o RuleMark \o NL \o NL

\* for i, paper in enumerate(papers, 1): the sections from the n-th on
RECURSIVE RenderPapers(_, _)
RenderPapers(ps, n) ==
    IF ps = <<>> THEN <<>>
    ELSE RenderPaper(n, Head(ps)) \o RenderPapers(Tail(ps), n + 1)

\* everything written to the output file
RenderDigest(days, maxres, start_date, latest_date, dates, counts, sorted) ==
    HeaderTitle
    \o HeaderLast \o IntStr(days) \o HeaderDays \o DateStr(start_date)
    \o HeaderTo \o DateStr(latest_date) \o HeaderClose
    \o HeaderMax \o IntStr(maxres) \o HeaderMaxClose
    \o HeaderNote
    \o RuleMark \o NL \o NL
    \o TableTitle \o TableHead \o TableRule
    \o RenderRows(dates, counts)
    \o NL \o RuleMark \o NL \o NL
    \o RenderPapers(sorted, 1)

\* what get_cv_papers computes and writes for a non-empty result sequence
WrittenDigest(rs, days, maxres) ==
    LET latest_date == rs[1].published
        start_date  == StartDate(latest_date, days)
        kept        == KeptPapers(rs, start_date, latest_date)
        counts      == DailyCounts(kept)
        dates       == SortedDesc(DOMAIN counts)
        sorted      == SortPapers(kept)
    IN [output_file |-> GetDigestFilename(start_date, latest_date),
        start_date  |-> start_date,
        latest_date |-> latest_date,
        table       |-> [k \in DOMAIN dates |-> <<dates[k], counts[dates[k]]>>],
        sections    |-> sorted,
        text        |-> RenderDigest(days, maxres, start_date, latest_date,
                                     dates, counts, sorted)]

\* get_cv_papers(past_days, max_results)
GetCvPapers ==
    /\ pc = "fetch"
    /\ IF results = <<>>
       THEN /\ pc' = "no_papers"
            /\ digest' = digest
       ELSE /\ digest' = WrittenDigest(results, past_days, max_results)
            /\ pc' = "written"
    /\ UNCHANGED <<err, results, past_days, max_results, loadVars, mainVars,
                   analyzeVars, responseVars>>

-----------------------------------------------------------------------------
(* load_papers: one pass over the lines of a digest file. *)

\* the body of the loop for one line: the record under construction, the
\* records flushed so far, and the exception the line raises ("none" if none)
LoadLineResult(cp, ps, raw) ==
    LET line == Strip(raw)
        same == [cp |-> cp, ps |-> ps, err |-> "none"]
    IN
    IF StartsWith(line, PaperMark) THEN
        [cp  |-> Put(EmptyDict, "number", Strip(SplitOn(line, "#")[2])),
         ps  |-> IF DOMAIN cp # {} THEN Append(ps, cp) ELSE ps,
         err |-> "none"]
    ELSE IF StartsWith(line, TitleMark) THEN
        [same EXCEPT !.cp = Put(cp, "title", Strip(DropPrefix(line, 4)))]
    ELSE IF StartsWith(line, DateMark) THEN
        [same EXCEPT !.cp = Put(cp, "date", Strip(DropPrefix(line, 15)))]
    ELSE IF StartsWith(line, AuthorsMark) THEN
        [same EXCEPT !.cp = Put(cp, "authors", Strip(DropPrefix(line, 12)))]
    ELSE IF StartsWith(line, AbstractMark) THEN
        [same EXCEPT !.cp = Put(cp, "abstract", <<>>)]
    ELSE IF StartsWith(line, LinksMark) THEN
        IF Has(cp, "abstract")
        THEN [same EXCEPT !.cp = Put(cp, "abstract", Strip(cp["abstract"]))]
        ELSE [same EXCEPT !.err = "KeyError"]
    ELSE IF StartsWith(line, ArxivMark) THEN
        [same EXCEPT !.cp = Put(cp, "arxiv_url",
                                Slice(line, Find(line, "(") + 1, Find(line, ")")))]
    ELSE IF StartsWith(line, PdfMark) THEN
        [same EXCEPT !.cp = Put(cp, "pdf_url",
                                Slice(line, Find(line, "(") + 1, Find(line, ")")))]
    ELSE IF Has(cp, "abstract") /\ line # <<>> /\ ~StartsWith(line, RuleMark) THEN
        [same EXCEPT !.cp = Put(cp, "abstract", cp["abstract"] \o line \o <<" ">>)]
    ELSE same

\* whether the line closes / reopens the record for the links_seen history
LinksSeenAfter(seen, cp, raw) ==
    LET line == Strip(raw) IN
    IF StartsWith(line, PaperMark) THEN FALSE
    ELSE IF StartsWith(line, TitleMark) \/ StartsWith(line, DateMark)
            \/ StartsWith(line, AuthorsMark) \/ StartsWith(line, AbstractMark)
         THEN seen
    ELSE IF StartsWith(line, LinksMark) THEN (seen \/ Has(cp, "abstract"))
    ELSE seen

\* one iteration of "for line in lines"
LoadLine ==
    /\ pc = "parsing"
    /\ pos <= Len(lines)
    /\ LET r == LoadLineResult(current_paper, papers, lines[pos]) IN
       /\ current_paper' = r.cp
       /\ papers' = r.ps
       /\ err' = r.err
       /\ pc' = IF r.err = "none" THEN "parsing" ELSE "load_papers_raised"
       /\ links_seen' = LinksSeenAfter(links_seen, current_paper, lines[pos])
    /\ pos' = pos + 1
    /\ UNCHANGED <<lines, fetchVars, mainVars, analyzeVars, responseVars>>

\* after the loop: flush the record in progress and return
LoadReturn ==
    /\ pc = "parsing"
    /\ pos > Len(lines)
    /\ papers' = IF DOMAIN current_paper # {} THEN Append(papers, current_paper)
                 ELSE papers
    /\ pc' = "loaded"
    /\ UNCHANGED <<err, lines, pos, current_paper, links_seen, fetchVars, mainVars,
                   analyzeVars, responseVars>>

\* load_papers as a whole: the loop over all lines, then the final flush
RECURSIVE LoadLoop(_, _, _)
LoadLoop(cp, ps, ls) ==
    IF ls = <<>> THEN [cp |-> cp, ps |-> ps, err |-> "none"]
    ELSE LET r == LoadLineResult(cp, ps, Head(ls)) IN
         IF r.err # "none" THEN r ELSE LoadLoop(r.cp, r.ps, Tail(ls))

LoadPapersOf(ls) ==
    LET r == LoadLoop(EmptyDict, <<>>, ls) IN
    [papers |-> IF r.err = "none" /\ DOMAIN r.cp # {} THEN Append(r.ps, r.cp)
                ELSE r.ps,
     err    |-> r.err]

-----------------------------------------------------------------------------
(* parse_ai_response: the labelled lines of a completion response. *)

\* "RELEVANT:"
RelevantLabel == <<"R", "E", "L", "E", "V", "A", "N", "T", ":">>
\* "REASON:"
ReasonLabel == <<"R", "E", "A", "S", "O", "N", ":">>
\* "TOPICS:"
TopicsLabel == <<"T", "O", "P", "I", "C", "S", ":">>
\* "MAIN_CONTRIBUTION:"
ContributionLabel ==
    <<"M", "A", "I", "N", "_", "C", "O", "N", "T", "R", "I", "B", "U", "T",
      "I", "O", "N", ":">>

UpperCase ==
    <<"A", "B", "C", "D", "E", "F", "G", "H", "I", "J", "K", "L", "M", "N",
      "O", "P", "Q", "R", "S", "T", "U", "V", "W", "X", "Y", "Z">>
LowerCase ==
    <<"a", "b", "c", "d", "e", "f", "g", "h", "i", "j", "k", "l", "m", "n",
      "o", "p", "q", "r", "s", "t", "u", "v", "w", "x", "y", "z">>

\* str.lower()
Lower(s) ==
    [k \in DOMAIN s |->
        IF \E n \in DOMAIN UpperCase : UpperCase[n] = s[k]
        THEN LowerCase[CHOOSE n \in DOMAIN UpperCase : UpperCase[n] = s[k]]
        ELSE s[k]]

\* [t.strip() for t in parts]
StripAll(parts) == [k \in DOMAIN parts |-> Strip(parts[k])]

\* DefaultVerdict with relevant set: a response is relevant unless it says no
DefaultVerdictRelevant ==
    [relevant |-> TRUE, reason |-> <<>>, topics |-> <<>>,
     main_contribution |-> <<>>]

\* the result before any line is read
DefaultVerdict ==
    [relevant |-> FALSE, reason |-> <<>>, topics |-> <<>>,
     main_contribution |-> <<>>]

\* the body of the loop for one line
VerdictAfterLine(result, raw) ==
    LET line == Strip(raw) IN
    IF StartsWith(line, RelevantLabel) THEN
        [result EXCEPT !.relevant =
            (Lower(Strip(DropPrefix(line, 9))) = <<"y", "e", "s">>)]
    ELSE IF StartsWith(line, ReasonLabel) THEN
        [result EXCEPT !.reason = Strip(DropPrefix(line, 7))]
    ELSE IF StartsWith(line, TopicsLabel) THEN
        LET topics == Strip(DropPrefix(line, 7)) IN
        IF topics # <<>>
        THEN [result EXCEPT !.topics = StripAll(SplitOn(topics, ","))]
        ELSE result
    ELSE IF StartsWith(line, ContributionLabel) THEN
        [result EXCEPT !.main_contribution = Strip(DropPrefix(line, 18))]
    ELSE result

RECURSIVE VerdictAfterLines(_, _)
VerdictAfterLines(result, ls) ==
    IF ls = <<>> THEN result
    ELSE VerdictAfterLines(VerdictAfterLine(result, Head(ls)), Tail(ls))

\* parse_ai_response(response_text)
ParseAiResponseOf(text) ==
    VerdictAfterLines(DefaultVerdict, SplitOn(Strip(text), "\n"))

ParseAiResponse ==
    /\ pc = "respond"
    /\ verdict' = ParseAiResponseOf(response_text)
    /\ pc' = "parsed"
    /\ UNCHANGED <<err, response_text, fetchVars, loadVars, mainVars, analyzeVars>>

-----------------------------------------------------------------------------
(* Hand-made digest lines for load_papers, well-formed or not. *)

ParseLines ==
    { PaperMark \o <<"1">> \o NL,
      TitleMark \o <<"t">> \o NL,
      DateMark \o <<" ", "d">> \o NL,
      AbstractMark \o NL,
      LinksMark \o NL,
      ArxivMark \o <<"(", "u", ")">> \o NL,
      PdfMark \o <<"v">> \o NL,
      <<"x">> \o NL,
      <<" ", "y", " ">> \o NL,
      RuleMark \o NL,
      NL }

\* the sequences over S of length at most n
SeqsUpTo(S, n) == UNION {[1..k -> S] : k \in 0..n}

\* the variables a program does not use keep these values
FetchIdle ==
    /\ results = <<>>
    /\ past_days = 0
    /\ max_results = 0
    /\ digest = EmptyDict

LoadStart ==
    /\ pos = 1
    /\ current_paper = EmptyDict
    /\ papers = <<>>
    /\ links_seen = FALSE

MainIdle ==
    /\ args = EmptyDict
    /\ config = EmptyDict
    /\ research_topics = <<>>
    /\ report = EmptyDict

AnalyzeInit ==
    /\ total_papers = 0
    /\ i = 1
    /\ calls = <<>>
    /\ relevant_papers = <<>>
    /\ analysis = EmptyDict

AnalyzeIdle == MainIdle /\ AnalyzeInit

ResponseIdle ==
    /\ response_text = <<>>
    /\ verdict = EmptyDict


\* load_papers on an arbitrary file of at most MaxLines lines
InitParse ==
    /\ pc = "parsing"
    /\ err = "none"
    /\ lines \in SeqsUpTo(ParseLines, MaxLines)
    /\ LoadStart
    /\ FetchIdle
    /\ AnalyzeIdle
    /\ ResponseIdle

NextParse == LoadLine \/ LoadReturn

SpecParse == InitParse /\ [][NextParse]_vars


-----------------------------------------------------------------------------
(* analyze_papers.py: file names. *)

\* Optional values: None, or a value
None == <<>>
Some(v) == <<v>>

\* 'analyzed_papers_'
AnalyzedPapers ==
    <<"a", "n", "a", "l", "y", "z", "e", "d", "_", "p", "a", "p", "e", "r",
      "s", "_">>
\* 'unknown date range'
UnknownRange ==
    <<"u", "n", "k", "n", "o", "w", "n", " ", "d", "a", "t", "e", " ", "r",
      "a", "n", "g", "e">>
\* datetime.min, as a date
DateMin == <<"0", "0", "0", "1", "-", "0", "1", "-", "0", "1">>

EndsWith(s, p) ==
    /\ Len(s) >= Len(p)
    /\ SubSeq(s, Len(s) - Len(p) + 1, Len(s)) = p

\* s.find(p) for a substring p: 0-based index of its first occurrence, or -1
FindSub(s, p) ==
    LET at == {k \in 0..(Len(s) - Len(p)) : SubSeq(s, k + 1, k + Len(p)) = p}
    IN IF at = {} THEN -1 ELSE CHOOSE k \in at : \A j \in at : k <= j

\* s.split(sep) for a non-empty separator string
RECURSIVE SplitSub(_, _)
SplitSub(s, sep) ==
    LET k == FindSub(s, sep) IN
    IF k = -1 THEN <<s>>
    ELSE <<SubSeq(s, 1, k)>> \o SplitSub(DropPrefix(s, k + Len(sep)), sep)

IsDigit(c) == \E n \in DOMAIN Digit : Digit[n] = c

\* the pattern \d{4}-\d{2}-\d{2}
IsIsoDate(s) ==
    /\ Len(s) = 10
    /\ \A k \in {1, 2, 3, 4, 6, 7, 9, 10} : IsDigit(s[k])
    /\ s[5] = "-"
    /\ s[8] = "-"

\* glob of papers/cv_papers_*_to_*.md
GlobMatches(path) ==
    /\ StartsWith(path, PapersDir \o CvPapers)
    /\ LET name == DropPrefix(path, Len(PapersDir \o CvPapers)) IN
       /\ FindSub(name, <<"/">>) = -1
       /\ EndsWith(name, MdExt)
       /\ FindSub(SubSeq(name, 1, Len(name) - Len(MdExt)), ToSep) # -1

\* get_end_date: re.search(r'to_(\d{4}-\d{2}-\d{2})\.md$'), else datetime.min
\* (the dates of the model's file names are valid calendar dates)
GetEndDate(filename) ==
    LET n    == Len(filename)
        tail == SubSeq(filename, n - 15, n)
    IN IF /\ n >= 16
          /\ StartsWith(tail, <<"t", "o", "_">>)
          /\ IsIsoDate(SubSeq(tail, 4, 13))
          /\ EndsWith(tail, MdExt)
       THEN SubSeq(tail, 4, 13)
       ELSE DateMin

\* order of two dates written YYYY-MM-DD
RECURSIVE DateLeq(_, _)
DateLeq(a, b) ==
    IF a = <<>> THEN TRUE
    ELSE IF Head(a) = Head(b) THEN DateLeq(Tail(a), Tail(b))
    ELSE LET va == CHOOSE n \in DOMAIN Digit : Digit[n] = Head(a)
             vb == CHOOSE n \in DOMAIN Digit : Digit[n] = Head(b)
         IN va <= vb

\* find_latest_arxiv_output: the files max(files, key=get_end_date) may return
\* (glob's order is the directory's; {} stands for FileNotFoundError)
FindLatestArxivOutput(dir) ==
    LET files == {f \in dir : GlobMatches(f)} IN
    {f \in files : \A g \in files : DateLeq(GetEndDate(g), GetEndDate(f))}

\* analyze_papers.get_output_filename(input_file)
GetOutputFilename(input_file) ==
    LET parts == SplitSub(input_file, CvPapers) IN
    IF Len(parts) < 2 THEN [err |-> "IndexError", path |-> <<>>]
    ELSE [err |-> "none", path |-> PapersDir \o AnalyzedPapers \o parts[2]]

\* generate_report's date range, from the output file name
DateRangeOf(output_file) ==
    LET n    == Len(output_file)
        tail == SubSeq(output_file, n - 42, n)
    IN IF /\ n >= 43
          /\ StartsWith(tail, AnalyzedPapers)
          /\ IsIsoDate(SubSeq(tail, 17, 26))
          /\ SubSeq(tail, 27, 30) = ToSep
          /\ IsIsoDate(SubSeq(tail, 31, 40))
          /\ EndsWith(tail, MdExt)
       THEN SubSeq(tail, 17, 26) \o <<" ", "t", "o", " ">> \o SubSeq(tail, 31, 40)
       ELSE UnknownRange

-----------------------------------------------------------------------------
(* The results a search may yield. *)

\* title, authors, summary and links of the results the search may yield
ResultTexts ==
    { [title    |-> <<"T">>,
       authors  |-> << <<"A">> >>,
       summary  |-> <<"s", " ", "t">>,
       entry_id |-> <<"u">>,
       pdf_url  |-> <<"v">>],
      [title    |-> <<"T", " ", "U">>,
       authors  |-> << <<"A">>, <<"B", " ", "C">> >>,
       summary  |-> <<"a", " ", " ", "b", "\n", "c", "\n">>,
       entry_id |-> <<"u", "2">>,
       pdf_url  |-> <<"v", "2">>],
      [title    |-> <<"W">>,
       authors  |-> << <<"B">> >>,
       summary  |-> <<"a", "\n", "-", "-", "-", " ", "b">>,
       entry_id |-> <<"u", "3">>,
       pdf_url  |-> <<"v", "3">>] }

ResultSet ==
    { [published |-> d, title |-> t.title, authors |-> t.authors,
       summary |-> t.summary, entry_id |-> t.entry_id, pdf_url |-> t.pdf_url] :
      d \in 0..MaxDate, t \in ResultTexts }

\* sort_by SubmittedDate, sort_order Descending: newest first
NewestFirst(rs) ==
    \A a, b \in DOMAIN rs : a < b => rs[a].published >= rs[b].published

-----------------------------------------------------------------------------
(* main: arguments, configuration, load_papers. *)

\* 'digest.md', 'papers/cv_papers_a_to_b.md', 'out.md'
OtherPath == <<"d", "i", "g", "e", "s", "t", ".", "m", "d">>
UndatedPath == PapersDir \o CvPapers \o <<"a">> \o ToSep \o <<"b">> \o MdExt
GivenOutput == <<"o", "u", "t", ".", "m", "d">>

\* what the papers directory may hold
Directories ==
    { {},
      {GetDigestFilename(-3, 0), GetDigestFilename(-4, -1), PapersDir \o OtherPath} }

\* RESEARCH_TOPICS in the environment, and --topics
ConfigTopics == <<"A", ",", " ", "B">>
ArgTopics == <<"B">>

\* lines 281-300: default input, default output, configuration
MainArgs ==
    /\ pc = "main"
    /\ \E dir \in Directories, api_key \in BOOLEAN, env_topics \in {None, Some(ConfigTopics)} :
         LET found == IF args.input = None THEN FindLatestArxivOutput(dir)
                      ELSE {args.input[1]}
         IN
         IF found = {}
         THEN /\ pc' = "exit"
              /\ UNCHANGED <<err, args, config>>
         ELSE \E input \in found :
              LET out == IF args.output = None THEN GetOutputFilename(input)
                         ELSE [err |-> "none", path |-> args.output[1]]
              IN
              IF out.err # "none"
              THEN /\ pc' = "main_raised"
                   /\ err' = out.err
                   /\ args' = [args EXCEPT !.input = Some(input)]
                   /\ UNCHANGED config
              ELSE /\ args' = [args EXCEPT !.input = Some(input),
                                           !.output = Some(out.path)]
                   /\ IF api_key /\ env_topics # None
                      THEN /\ config' = [research_topics |-> env_topics[1]]
                           /\ pc' = "load"
                      ELSE /\ config' = config
                           /\ pc' = "exit"
                   /\ UNCHANGED err
    /\ UNCHANGED <<research_topics, report, fetchVars, loadVars, analyzeVars,
                   responseVars>>

\* the digest files the analysis may be given: results of one day
MainResults ==
    {rs \in SeqsUpTo({r \in ResultSet : r.published = 0 /\ Len(r.authors) = 1},
                     MaxPapers) : rs # <<>>}

\* the lines of a file with one line left out
DropLine(ls, k) == SubSeq(ls, 1, k - 1) \o SubSeq(ls, k + 1, Len(ls))

\* the files the analysis may be given: a digest as written, a digest cut
\* short after k lines, or a digest that lost its k-th line
MainFiles ==
    UNION { LET ls == ReadLines(WrittenDigest(rs, 0, Len(rs)).text) IN
            UNION { {ls, SubSeq(ls, 1, k), DropLine(ls, k)} : k \in 0..Len(ls) } :
            rs \in MainResults }

\* what load_papers does on each of these files
MainLoads == {LoadPapersOf(file) : file \in MainFiles}

\* lines 302-304: papers = load_papers(args.input)
MainLoad ==
    /\ pc = "load"
    /\ \E r \in MainLoads :
         IF r.err # "none"
         THEN /\ pc' = "load_papers_raised"
              /\ err' = r.err
              /\ papers' = papers
         ELSE /\ pc' = "analyze"
              /\ err' = err
              /\ papers' = r.papers
    /\ UNCHANGED <<lines, pos, current_paper, links_seen, fetchVars, mainVars,
                   analyzeVars, responseVars>>

-----------------------------------------------------------------------------
(* analyze_papers: one completion call per paper. *)

\* the responses the completion service may give
MainResponses ==
    { Join(NL, << RelevantLabel \o <<" ", "y", "e", "s">>,
                  ReasonLabel \o <<" ", "r">>,
                  TopicsLabel \o <<" ", "A", ",", " ", "B">>,
                  ContributionLabel \o <<" ", "m">> >>),
      Join(NL, << RelevantLabel \o <<" ", "Y", "e", "s">>,
                  TopicsLabel \o <<" ", "B", ",", " ", "C">> >>),
      Join(NL, << RelevantLabel \o <<" ", "n", "o">>,
                  TopicsLabel \o <<" ", "A">> >>) }

\* total_papers = len(papers)
TotalPapers(ps) == Len(ps)

\* NextAfterError with break in place of continue: the loop is left
NextAfterErrorBreak(idx, n) == n + 1

\* except Exception: ... continue -- the loop goes on with the next paper
NextAfterError(idx, n) == idx + 1

\* line 307 and lines 113-120: the topic list, the client, the counters
AnalyzeBegin ==
    /\ pc = "analyze"
    /\ research_topics' =
         StripAll(SplitOn(IF args.topics # None /\ args.topics[1] # <<>>
                          THEN args.topics[1]
                          ELSE config.research_topics, ","))
    /\ relevant_papers' = <<>>
    /\ total_papers' = TotalPapers(papers)
    /\ i' = 1
    /\ pc' = "analyzing"
    /\ UNCHANGED <<err, args, config, report, calls, analysis, fetchVars,
                   loadVars, responseVars>>

\* one iteration of "for i, paper in enumerate(papers, 1)"
AnalyzeStep ==
    /\ pc = "analyzing"
    /\ i <= Len(papers)
    /\ LET paper == papers[i] IN
       IF ~(Has(paper, "title") /\ Has(paper, "abstract"))
       THEN \* the prompt is built before the try block
            /\ pc' = "analyze_papers_raised"
            /\ err' = "KeyError"
            /\ UNCHANGED <<i, calls, relevant_papers, papers>>
       ELSE \/ \* the completion call (or reading its content) raises
               /\ i' = NextAfterError(i, Len(papers))
               /\ calls' = Append(calls, [raised |-> TRUE, verdict |-> DefaultVerdict])
               /\ UNCHANGED <<pc, err, relevant_papers, papers>>
            \/ \E text \in MainResponses :
               LET result == ParseAiResponseOf(text)
                   marked == Put(paper, "relevance", result)
               IN
               /\ i' = i + 1
               /\ calls' = Append(calls, [raised |-> FALSE, verdict |-> result])
               /\ IF result.relevant
                  THEN /\ papers' = [papers EXCEPT ![i] = marked]
                       /\ relevant_papers' = Append(relevant_papers, marked)
                  ELSE UNCHANGED <<papers, relevant_papers>>
               /\ UNCHANGED <<pc, err>>
    /\ UNCHANGED <<lines, pos, current_paper, links_seen, total_papers, analysis,
                   fetchVars, mainVars, responseVars>>

\* lines 180-186: the result
AnalyzeReturn ==
    /\ pc = "analyzing"
    /\ i > Len(papers)
    /\ analysis' = [total_papers    |-> total_papers,
                    relevant_papers |-> relevant_papers,
                    relevance_count |-> Len(relevant_papers)]
    /\ pc' = "analyzed"
    /\ UNCHANGED <<err, total_papers, i, calls, relevant_papers, fetchVars,
                   loadVars, mainVars, responseVars>>

-----------------------------------------------------------------------------
(* generate_report: the analysis report. *)

\* topic.lower().replace(' ', '-')
Anchor(topic) ==
    [k \in DOMAIN topic |-> IF Lower(topic)[k] = " " THEN "-" ELSE Lower(topic)[k]]

\* the relevance rate in tenths of a percent, as ":.1f" rounds it
\* (exact below 16 papers, where no rate lies halfway between two tenths)
RateTenths(count, total) == (count * 2000 + total) \div (2 * total)

\* the inner loop of the grouping: the paper is appended under each topic
RECURSIVE GroupTopics(_, _, _)
GroupTopics(topic_papers, paper, topics) ==
    IF topics = <<>> THEN topic_papers
    ELSE LET topic == Head(topics)
             sofar == IF Has(topic_papers, topic) THEN topic_papers[topic] ELSE <<>>
         IN GroupTopics(Put(topic_papers, topic, Append(sofar, paper)),
                        paper, Tail(topics))

\* GroupPapers without the inner loop: a paper is filed under its first
\* topic only
RECURSIVE GroupPapersFirstTopic(_, _)
GroupPapersFirstTopic(topic_papers, relevant) ==
    IF relevant = <<>> THEN topic_papers
    ELSE GroupPapersFirstTopic(
             GroupTopics(topic_papers, Head(relevant),
                         SubSeq(Head(relevant)["relevance"].topics, 1, 1)),
             Tail(relevant))

\* lines 214-220: topic_papers, from topic to the papers matched to it
RECURSIVE GroupPapers(_, _)
GroupPapers(topic_papers, relevant) ==
    IF relevant = <<>> THEN topic_papers
    ELSE GroupPapers(
             GroupTopics(topic_papers, Head(relevant),
                         Head(relevant)["relevance"].topics),
             Tail(relevant))

\* the fields of a paper's entry, in the order they are written
EntryFields ==
    <<"title", "date", "authors", "main_contribution", "topics", "reason",
      "abstract", "arxiv_url", "pdf_url">>

VerdictFields == {"main_contribution", "topics", "reason"}

FieldValue(paper, f) ==
    IF f \in VerdictFields THEN paper["relevance"][f] ELSE paper[f]

\* the entry written for a paper: the fields up to the first missing key
EntryOf(paper) ==
    LET missing == {k \in DOMAIN EntryFields :
                       EntryFields[k] \notin VerdictFields /\ ~Has(paper, EntryFields[k])}
        n       == IF missing = {} THEN Len(EntryFields)
                   ELSE (CHOOSE k \in missing : \A j \in missing : k <= j) - 1
    IN [f \in {EntryFields[k] : k \in 1..n} |-> FieldValue(paper, f)]

\* the entries of one topic section, up to the first that raises
RECURSIVE WriteEntries(_)
WriteEntries(ps) ==
    IF ps = <<>> THEN [entries |-> <<>>, err |-> "none"]
    ELSE LET e == EntryOf(Head(ps)) IN
         IF DOMAIN e # {EntryFields[k] : k \in DOMAIN EntryFields}
         THEN [entries |-> <<e>>, err |-> "KeyError"]
         ELSE LET rest == WriteEntries(Tail(ps)) IN
              [entries |-> <<e>> \o rest.entries, err |-> rest.err]

\* lines 236-262: one section per configured topic that has papers
RECURSIVE WriteSections(_, _)
WriteSections(topics, topic_papers) ==
    IF topics = <<>> THEN [sections |-> <<>>, err |-> "none"]
    ELSE IF ~Has(topic_papers, Head(topics))
    THEN WriteSections(Tail(topics), topic_papers)
    ELSE LET es  == WriteEntries(topic_papers[Head(topics)])
             sec == [topic   |-> Head(topics),
                     anchor  |-> Anchor(Head(topics)),
                     found   |-> Len(topic_papers[Head(topics)]),
                     entries |-> es.entries]
         IN IF es.err # "none" THEN [sections |-> <<sec>>, err |-> es.err]
            ELSE LET rest == WriteSections(Tail(topics), topic_papers) IN
                 [sections |-> <<sec>> \o rest.sections, err |-> rest.err]

\* generate_report(analysis, research_topics, args.output): what the file
\* holds when the function returns or raises (the "Generated on" time aside)
GenerateReport ==
    /\ pc = "analyzed"
    /\ LET head == [date_range      |-> DateRangeOf(args.output[1]),
                    topics          |-> research_topics,
                    total_papers    |-> analysis.total_papers,
                    relevance_count |-> analysis.relevance_count,
                    rate            |-> None,
                    table           |-> <<>>,
                    sections        |-> <<>>]
       IN
       IF analysis.total_papers = 0
       THEN /\ report' = head
            /\ err' = "ZeroDivisionError"
            /\ pc' = "generate_report_raised"
       ELSE LET topic_papers == GroupPapers(EmptyDict, analysis.relevant_papers)
                table == [k \in DOMAIN research_topics |->
                            [topic  |-> research_topics[k],
                             anchor |-> Anchor(research_topics[k]),
                             count  |-> IF Has(topic_papers, research_topics[k])
                                        THEN Len(topic_papers[research_topics[k]])
                                        ELSE 0]]
                body  == WriteSections(research_topics, topic_papers)
            IN
            /\ report' = [head EXCEPT
                            !.rate = Some(RateTenths(analysis.relevance_count,
                                                     analysis.total_papers)),
                            !.table = table,
                            !.sections = body.sections]
            /\ err' = body.err
            /\ pc' = IF body.err = "none" THEN "reported"
                     ELSE "generate_report_raised"
    /\ UNCHANGED <<args, config, research_topics, fetchVars, loadVars,
                   analyzeVars, responseVars>>

-----------------------------------------------------------------------------
(* The analysis program: main. *)

\* the command lines: every --input / --output choice without --topics, and
\* --topics alone
MainArguments ==
    [input  : {None, Some(OtherPath), Some(UndatedPath)},
     output : {None, Some(GivenOutput)},
     topics : {None}]
    \cup [input : {None}, output : {None}, topics : {Some(ArgTopics)}]

InitMain ==
    /\ pc = "main"
    /\ err = "none"
    /\ args \in MainArguments
    /\ config = EmptyDict
    /\ research_topics = <<>>
    /\ report = EmptyDict
    /\ lines = <<>>
    /\ LoadStart
    /\ FetchIdle
    /\ AnalyzeInit
    /\ ResponseIdle

NextMain ==
    \/ MainArgs
    \/ MainLoad
    \/ AnalyzeBegin
    \/ AnalyzeStep
    \/ AnalyzeReturn
    \/ GenerateReport

SpecMain == InitMain /\ [][NextMain]_vars

-----------------------------------------------------------------------------
(* The fetch program: get_cv_papers, then load_papers on what it wrote. *)

InitSearch ==
    /\ pc = "fetch"
    /\ err = "none"
    /\ max_results \in 1..MaxResults
    /\ results \in {rs \in SeqsUpTo(ResultSet, max_results) : NewestFirst(rs)}
    /\ past_days \in 0..MaxDays
    /\ digest = EmptyDict
    /\ lines = <<>>
    /\ LoadStart
    /\ AnalyzeIdle
    /\ ResponseIdle

\* load_papers opens the digest get_cv_papers wrote and reads its lines
ReadDigest ==
    /\ pc = "written"
    /\ lines' = ReadLines(digest.text)
    /\ pc' = "parsing"
    /\ UNCHANGED <<err, pos, current_paper, papers, links_seen, fetchVars, mainVars,
                   analyzeVars, responseVars>>

\* the fetch step alone
InitFetch == InitSearch

NextFetch == GetCvPapers

SpecFetch == InitFetch /\ [][NextFetch]_vars

\* the fetch step, then load_papers on the digest it wrote
InitDigest == InitSearch /\ Len(results) <= MaxReadBack

NextDigest == GetCvPapers \/ ReadDigest \/ LoadLine \/ LoadReturn

SpecDigest == InitDigest /\ [][NextDigest]_vars

-----------------------------------------------------------------------------
(* parse_ai_response on arbitrary responses. *)

ResponseLines ==
    { RelevantLabel \o <<" ", "y", "e", "s">>,
      <<" ">> \o RelevantLabel \o <<" ", "Y", "E", "S", " ">>,
      RelevantLabel \o <<" ", "n", "o">>,
      RelevantLabel \o <<"y", "e", "s", ".">>,
      RelevantLabel,
      <<"r", "e", "l", "e", "v", "a", "n", "t", ":", " ", "y", "e", "s">>,
      ReasonLabel \o <<" ", "r">>,
      TopicsLabel \o <<" ", "A", ",", " ", "B">>,
      TopicsLabel \o <<"A", ",">>,
      TopicsLabel \o <<" ">>,
      ContributionLabel \o <<" ", "m">>,
      <<"x">>,
      <<>> }

InitResponse ==
    /\ pc = "respond"
    /\ err = "none"
    /\ response_text \in {Join(NL, ls) : ls \in SeqsUpTo(ResponseLines, MaxRespLines)}
    /\ verdict = EmptyDict
    /\ lines = <<>>
    /\ LoadStart
    /\ FetchIdle
    /\ AnalyzeIdle

NextResponse == ParseAiResponse

SpecResponse == InitResponse /\ [][NextResponse]_vars

-----------------------------------------------------------------------------
(* Claims about get_cv_papers (SpecFetch). *)

\* the number of indices of s whose element is x
CountOf(s, x) == Cardinality({k \in DOMAIN s : s[k] = x})

\* C7: with L the date of the most recent result and N the lookback days,
\* the digest has window start L - N, holds exactly the results dated within
\* [L - N, L], lists them by descending date, and its table has one row per
\* retained date, in descending order, counting the retained papers of it.
C7_LatestWindow ==
    pc = "written" =>
        LET dates    == {results[k].published : k \in DOMAIN results}
            L        == CHOOSE d \in dates : \A e \in dates : e <= d
            lo       == L - past_days
            retained == {k \in DOMAIN results :
                            lo <= results[k].published /\ results[k].published <= L}
            S        == digest.sections
            T        == digest.table
        IN
        /\ digest.start_date = lo
        /\ digest.latest_date = L
        /\ Len(S) = Cardinality(retained)
        /\ \A k \in retained :
              CountOf(S, PaperOf(results[k]))
                  = Cardinality({j \in retained : results[j] = results[k]})
        /\ \A a, b \in DOMAIN S : a < b => S[a].date >= S[b].date
        /\ \A a, b \in DOMAIN T : a < b => T[a][1] > T[b][1]
        /\ {T[k][1] : k \in DOMAIN T} = {S[j].date : j \in DOMAIN S}
        /\ \A k \in DOMAIN T :
              /\ T[k][2] >= 1
              /\ T[k][2] = Cardinality({j \in DOMAIN S : S[j].date = T[k][1]})

\* a digest with a result left out of the window, a date with two papers
\* and two rows in its table
C7_Witness ==
    /\ pc = "written"
    /\ Len(digest.sections) < Len(results)
    /\ Len(digest.table) >= 2
    /\ \E k \in DOMAIN digest.table : digest.table[k][2] >= 2

-----------------------------------------------------------------------------
(* Claims about the digest written and read back (SpecDigest). *)

\* s.split(): the maximal runs of non-whitespace characters
RECURSIVE Words(_)
Words(s) ==
    LET t == LStrip(s)
        n == IF \E k \in DOMAIN t : t[k] \in Whitespace
             THEN (CHOOSE k \in DOMAIN t :
                      t[k] \in Whitespace /\ \A j \in 1..(k - 1) : t[j] \notin Whitespace) - 1
             ELSE Len(t)
    IN IF t = <<>> THEN <<>>
       ELSE <<SubSeq(t, 1, n)>> \o Words(DropPrefix(t, n))

\* whitespace-normalized text: " ".join(s.split())
Normalized(s) == Join(<<" ">>, Words(s))

\* a record load_papers returned equals the paper that was rendered
SameAsRendered(rec, paper) ==
    /\ DOMAIN rec = {"number", "title", "date", "authors", "abstract",
                     "arxiv_url", "pdf_url"}
    /\ rec["title"] = paper.title
    /\ rec["date"] = DateStr(paper.date)
    /\ rec["authors"] = Join(<<",", " ">>, paper.authors)
    /\ Normalized(rec["abstract"]) = Normalized(paper.summary)
    /\ rec["arxiv_url"] = paper.url
    /\ rec["pdf_url"] = paper.pdf_url

\* C1: load_papers on a written digest returns one record per rendered
\* paper, in order, with the rendered title, date, authors, abstract
\* (whitespace-normalized) and both URLs.
C1_RoundTrip ==
    pc = "loaded" =>
        /\ Len(papers) = Len(digest.sections)
        /\ \A k \in DOMAIN papers : SameAsRendered(papers[k], digest.sections[k])

-----------------------------------------------------------------------------
(* Claims about load_papers on arbitrary input (SpecParse). *)

\* C8: load_papers never raises: whatever the lines are, the program is
\* either still in the loop or has returned its list, with no exception.
C8_LoadNeverRaises == pc \in {"parsing", "loaded"} /\ err = "none"

\* C10: once the current record has met its links marker, no later line
\* other than the next paper start changes that record's abstract.
C10_AbstractClosedByLinks ==
    [][(/\ pc = "parsing"
        /\ pos <= Len(lines)
        /\ links_seen
        /\ ~StartsWith(Strip(lines[pos]), PaperMark))
       => current_paper'["abstract"] = current_paper["abstract"]]_vars

-----------------------------------------------------------------------------
(* Claims about parse_ai_response (SpecResponse). *)

\* the response has a line that, trimmed, starts with the label
HasLabelled(text, label) ==
    \E k \in DOMAIN SplitOn(text, "\n") :
        StartsWith(Strip(SplitOn(text, "\n")[k]), label)

\* the response has a TOPICS: line with a non-blank remainder
HasTopicsGiven(text) ==
    \E k \in DOMAIN SplitOn(text, "\n") :
        LET line == Strip(SplitOn(text, "\n")[k]) IN
        StartsWith(line, TopicsLabel) /\ Strip(DropPrefix(line, 7)) # <<>>

\* C6 as stated: a response with no RELEVANT: line is parsed as not
\* relevant with an empty topic list, whatever its other lines are.
C6_NoRelevantLine ==
    (pc = "parsed" /\ ~HasLabelled(response_text, RelevantLabel)) =>
        (verdict.relevant = FALSE /\ verdict.topics = <<>>)

\* C6 amended: a response with no RELEVANT: line is parsed as not relevant;
\* its topic list is empty exactly when it has no TOPICS: line with a
\* non-blank remainder.
C6_NoRelevantLineAmended ==
    (pc = "parsed" /\ ~HasLabelled(response_text, RelevantLabel)) =>
        /\ verdict.relevant = FALSE
        /\ (verdict.topics = <<>>) <=> ~HasTopicsGiven(response_text)

\* a parsed response without a RELEVANT: line whose TOPICS: line was kept
C6_Witness ==
    /\ pc = "parsed"
    /\ ~HasLabelled(response_text, RelevantLabel)
    /\ HasLabelled(response_text, ReasonLabel)
    /\ verdict.relevant = FALSE
    /\ verdict.topics = << <<"A">>, <<"B">> >>

-----------------------------------------------------------------------------
(* Claims about the analysis program (SpecMain). *)

\* the indices of the papers whose completion call returned
Classified == {k \in DOMAIN calls : ~calls[k].raised}

\* the indices of the papers classified as relevant
ClassifiedRelevant == {k \in Classified : calls[k].verdict.relevant}

\* C2 as stated: when analyze_papers returns, every paper has been visited,
\* and total_papers and the relevant count both count only the papers whose
\* completion call did not raise.
C2_CountsExcludeErrored ==
    pc = "analyzed" =>
        /\ Len(calls) = Len(papers)
        /\ analysis.total_papers = Cardinality(Classified)
        /\ analysis.relevance_count = Cardinality(ClassifiedRelevant)

\* C2 amended: when analyze_papers returns, every paper has been visited
\* (those after an errored one too), the relevant papers are exactly the
\* papers classified relevant, in order, and total_papers is the number of
\* input papers, errored ones included.
C2_CountsAfterErrors ==
    pc = "analyzed" =>
        /\ Len(calls) = Len(papers)
        /\ analysis.total_papers = Len(papers)
        /\ analysis.relevance_count = Cardinality(ClassifiedRelevant)
        /\ Len(analysis.relevant_papers) = Cardinality(ClassifiedRelevant)
        /\ \A n \in DOMAIN analysis.relevant_papers :
              \E k \in ClassifiedRelevant :
                 /\ Cardinality({j \in ClassifiedRelevant : j <= k}) = n
                 /\ analysis.relevant_papers[n] = papers[k]
                 /\ papers[k]["relevance"] = calls[k].verdict

\* a returned analysis in which a completion call raised and the next
\* paper was classified relevant
C2_Witness ==
    /\ pc = "analyzed"
    /\ \E k \in DOMAIN calls :
          /\ calls[k].raised
          /\ k + 1 \in ClassifiedRelevant
    /\ analysis.total_papers = 2
    /\ analysis.relevance_count = 1

\* C3: no record load_papers returned makes analyze_papers raise: the loop
\* always reaches the end of the papers and the function returns.
C3_BatchNeverAborts == pc # "analyze_papers_raised"

\* C4: with total_papers = 0, generate_report writes the report to the end
\* and raises nothing.
C4_ZeroTotalGuarded ==
    (pc \in {"reported", "generate_report_raised"} /\ analysis.total_papers = 0)
        => (pc = "reported" /\ err = "none")

\* the paper has every key an entry reads
PaperComplete(paper) ==
    {"title", "date", "authors", "abstract", "arxiv_url", "pdf_url", "relevance"}
        \subseteq DOMAIN paper

\* the section holds an entry with the full content of the paper
HasFullEntry(sec, paper) ==
    /\ PaperComplete(paper)
    /\ \E k \in DOMAIN sec.entries :
          sec.entries[k] =
              [title             |-> paper["title"],
               date              |-> paper["date"],
               authors           |-> paper["authors"],
               main_contribution |-> paper["relevance"].main_contribution,
               topics            |-> paper["relevance"].topics,
               reason            |-> paper["relevance"].reason,
               abstract          |-> paper["abstract"],
               arxiv_url         |-> paper["arxiv_url"],
               pdf_url           |-> paper["pdf_url"]]

\* the report has a section of the topic with the paper's full entry
ListedUnder(topic, paper) ==
    \E n \in DOMAIN report.sections :
        /\ report.sections[n].topic = topic
        /\ HasFullEntry(report.sections[n], paper)

TopicsOf(paper) ==
    {paper["relevance"].topics[k] : k \in DOMAIN paper["relevance"].topics}

IsDigestName(path) ==
    LET n    == Len(path)
        tail == SubSeq(path, n - 36, n)
    IN /\ n >= 37
       /\ StartsWith(tail, CvPapers)
       /\ IsIsoDate(SubSeq(tail, 11, 20))
       /\ SubSeq(tail, 21, 24) = ToSep
       /\ IsIsoDate(SubSeq(tail, 25, 34))
       /\ EndsWith(tail, MdExt)

\* C9: given an input path that is no digest file name and no output path,
\* main raises nothing and derives an output file whose report date range
\* is 'unknown date range'.
C9_UnknownRangeFallback ==
    [][(/\ pc = "main"
        /\ args.input # None
        /\ ~IsDigestName(args.input[1])
        /\ args.output = None)
       => (/\ pc' # "main_raised"
           /\ args'.output # None
           /\ DateRangeOf(args'.output[1]) = UnknownRange)]_vars

=============================================================================
